---------------------------- MODULE Spec2Model ----------------------------
(***************************************************************************)
(* Voice interaction pipeline of the AssistantView component               *)
(* (src/frontend/src/router/index.js, lines 137-669): two WebSocket        *)
(* channels (recognition = STT, synthesis = TTS), microphone capture with  *)
(* a voice-activity segmenter, and the playback queue of synthesized       *)
(* fragments.  Every handler of the component is one action; the browser   *)
(* (sockets, getUserMedia, the audio element, timers) is the environment.  *)
(* UI-only fields (statusText, logs, progress, isSpeaking) are left out.   *)
(***************************************************************************)
EXTENDS Integers, Sequences, FiniteSets, TLC

(* ------------------------------ bounds -------------------------------- *)
\* sockets of one channel alive at once (the held one and superseded ones
\* whose close event is still to come)
MaxSockets == 2
\* config messages counted on one socket
MaxConfigs == 3
\* microphone captures in flight at once (getUserMedia requests pending
\* plus streams alive)
MaxCaptures == 2
\* audio blocks delivered by the capture device
MaxFrames == 12
\* audio blocks handled in the runs that stop and restart recording
MaxRestartFrames == 10
\* largest magnitude of an input sample, in halves (3 admits -1.5 .. 1.5)
MaxOverdrive == 3
\* audio fragments received on the synthesis channel
MaxFragments == 3
\* synthesis messages dropped by the catch block of handleTtsMessage
MaxDrops == 1
\* messages received on the recognition channel
MaxSttMessages == 3

(* ------------------------- program constants -------------------------- *)
\* AUDIO_CONFIG, in thousandths for the RMS threshold (0.05)
AUDIO_RMS_THRESHOLD == 50
SPEECH_PADDING_FRAMES == 2
MAX_SILENCE_FRAMES == 8

\* loudness values of a block: below, exactly at, and above the threshold
RmsLevels == {AUDIO_RMS_THRESHOLD - 1, AUDIO_RMS_THRESHOLD, AUDIO_RMS_THRESHOLD + 1}
\* transcript texts carried by fragments
Texts == {"a", "b"}
\* shapes of an inbound synthesis message
TtsKinds == {"pong", "audio", "other", "noBase64", "badBase64", "noText", "badJson"}

VARIABLES
  \* --- channels
  sttSocket,             \* the WebSocket held in sttSocket.value, or NoSocket
  sttOld,                \* superseded recognition sockets still to fire close
  ttsSocket,
  ttsOld,
  isSttConnected,
  isTtsConnected,
  connectionStatusClass,
  \* --- recording
  isRecording,
  pendingMedia,          \* getUserMedia promises not yet settled
  mediaStream,           \* id held in mediaStream.value, 0 = null
  audioContext,
  audioProcessor,
  liveStreams,           \* streams acquired and not stopped
  liveContexts,          \* contexts created and not closed
  liveProcessors,        \* processors connected and not disconnected
  \* --- segmenter
  speechFrames,
  silenceFrames,
  isClientSpeaking,
  nFrames,               \* blocks handled by processAudio while recording
  frameLog,              \* isSpeech of each such block, by block number
  lastRms,               \* loudness of the last such block
  segStart,              \* block number that opened the current segment
  emitted,               \* segments handed to sendAudioToServer, and whether sent
  discarded,             \* blocks that stopVoiceChat dropped from speechFrames
  inputData,             \* a sample of the input buffer, in units of 1/65536
  audioData,             \* the Int16Array element made from it
  \* --- playback
  audioQueue,
  isPlaying,
  currentAudio,
  pendingTimers,         \* setTimeout(playNextAudio, 50) not yet fired
  live2dPresent,         \* inject('live2dControls') returned an object
  live2dVisible,         \* live2dControls.isVisible.value
  mounted,               \* the component has not been unmounted
  settings,              \* sttApiUrl, ttsApiUrl, userToken: 0 = the default text
  nextUrl,               \* next blob URL URL.createObjectURL will return
  revoked,               \* URL.revokeObjectURL calls per blob URL
  played,                \* urls in the order they became currentAudio
  speakCalls,            \* live2dControls.speak calls
  stopSpeakingCalls,     \* live2dControls.stopSpeaking calls
  avatarSpeaking,        \* the last call made to the avatar was speak
  drainEvents,           \* 'ai-audio-ended' events dispatched
  playEvents,            \* 'ai-audio-play' events dispatched: how many, and
                         \* the audioUrl and text of the last one
  endedCount,            \* audio-ended events handled
  errorCount,            \* audio-error events handled
  lateArrival,           \* a fragment arrived after the first ended/error
  parseFailures,         \* messages dropped by the catch block of handleTtsMessage
  \* --- conversation
  conversationHistory,   \* the turns shown, oldest first
  sttMessages            \* message.type of each message handleSttMessage was given

chanVars == <<sttSocket, sttOld, ttsSocket, ttsOld, isSttConnected,
              isTtsConnected, connectionStatusClass>>
recVars  == <<isRecording, pendingMedia, mediaStream, audioContext,
              audioProcessor, liveStreams, liveContexts, liveProcessors>>
segVars  == <<speechFrames, silenceFrames, isClientSpeaking, nFrames, frameLog,
              lastRms, segStart, emitted, discarded, inputData, audioData>>
playVars == <<audioQueue, isPlaying, currentAudio, pendingTimers, nextUrl,
              revoked, played, speakCalls, stopSpeakingCalls, avatarSpeaking,
              drainEvents,
              playEvents, endedCount, errorCount, lateArrival, parseFailures>>
envVars  == <<live2dPresent, live2dVisible, mounted, settings>>
convVars == <<conversationHistory, sttMessages>>
vars == <<chanVars, recVars, segVars, playVars, envVars, convVars>>

(* ------------------------------ settings ------------------------------ *)
\* the inputs of the config panel, and the texts one can hold
SettingFields == {"sttApiUrl", "ttsApiUrl", "userToken"}
SettingTexts == {0, 1}

\* the ref() initial values of sttApiUrl, ttsApiUrl and userToken
DefaultSettings == [f \in SettingFields |-> 0]

(* ------------------------------ sockets ------------------------------- *)
\* a WebSocket: readyState, whether its close event was delivered, and the
\* number of config messages transmitted on it
NewSocket == [rs |-> "CONNECTING", closed |-> FALSE, cfg |-> 0]

\* sttSocket.value / ttsSocket.value before the first connect
NoSocket == [rs |-> "NULL", closed |-> TRUE, cfg |-> 0]

\* close() having an effect on an open socket only
CloseCallOpenOnly(s) == IF s.rs = "OPEN" THEN [s EXCEPT !.rs = "CLOSING"] ELSE s

\* WebSocket.close(): a connecting or open socket starts closing
CloseCall(s) == IF s.rs \in {"CONNECTING", "OPEN"} THEN [s EXCEPT !.rs = "CLOSING"] ELSE s

\* superseded sockets: how many are closing, and how many have fired error
\* and not yet close
NoOld == [closing |-> 0, errored |-> 0]
OldCount(old) == old.closing + old.errored

\* the superseded sockets once socket s has had close() called and has been
\* replaced; a socket whose close event was delivered fires nothing more
Supersede(old, s) ==
  IF s.closed THEN old
  ELSE IF s.rs = "CLOSED" THEN [old EXCEPT !.errored = @ + 1]
  ELSE [old EXCEPT !.closing = @ + 1]

isConnected == isSttConnected /\ isTtsConnected
connectBtnDisabled == isSttConnected \/ isTtsConnected
startRecordBtnDisabled == ~isConnected \/ isRecording

\* a status that reports "connected" as soon as one channel is connected
CombinedStatusClassEither(stt, tts) ==
  IF stt \/ tts THEN "connected" ELSE "disconnected"

\* updateCombinedConnectionStatus: the class handed to updateConnectionStatus
CombinedStatusClass(stt, tts) ==
  IF stt /\ tts THEN "connected"
  ELSE IF ~stt /\ ~tts THEN "disconnected"
  ELSE "processing"

(* ------------------------------ recording ----------------------------- *)
\* updateSttServerConfig sending whatever the state of the socket
UpdateSttServerConfigUnguarded(s) == [s EXCEPT !.cfg = @ + 1]

\* updateSttServerConfig returning before it sends
UpdateSttServerConfigSkipped(s) == s

\* updateSttServerConfig: the held recognition socket after the call; the
\* config message goes out only when it is OPEN
UpdateSttServerConfig(s) ==
  IF s.rs # "OPEN" THEN s ELSE [s EXCEPT !.cfg = @ + 1]

\* stopVoiceChat leaving the stored blocks in place
StopVoiceChatKeepsFrames ==
  IF ~isRecording
  THEN UNCHANGED <<recVars, isClientSpeaking, speechFrames, discarded>>
  ELSE /\ isRecording' = FALSE
       /\ isClientSpeaking' = FALSE
       /\ liveProcessors' = liveProcessors \ {audioProcessor}
       /\ liveContexts' = liveContexts \ {audioContext}
       /\ liveStreams' = liveStreams \ {mediaStream}
       /\ audioProcessor' = 0
       /\ audioContext' = 0
       /\ mediaStream' = 0
       /\ discarded' = discarded \cup {speechFrames[i] : i \in DOMAIN speechFrames}
       /\ UNCHANGED <<pendingMedia, speechFrames>>

\* stopVoiceChat
StopVoiceChat ==
  IF ~isRecording
  THEN UNCHANGED <<recVars, isClientSpeaking, speechFrames, discarded>>
  ELSE /\ isRecording' = FALSE
       /\ isClientSpeaking' = FALSE
       /\ liveProcessors' = liveProcessors \ {audioProcessor}
       /\ liveContexts' = liveContexts \ {audioContext}
       /\ liveStreams' = liveStreams \ {mediaStream}
       /\ audioProcessor' = 0
       /\ audioContext' = 0
       /\ mediaStream' = 0
       /\ speechFrames' = <<>>
       /\ discarded' = discarded \cup {speechFrames[i] : i \in DOMAIN speechFrames}
       /\ UNCHANGED pendingMedia

\* the stop button: stopVoiceChat called on its own
StopRecord ==
  /\ mounted
  /\ isRecording
  /\ StopVoiceChat
  /\ UNCHANGED <<chanVars, playVars, envVars, convVars, silenceFrames, nFrames, frameLog,
                 lastRms, segStart, emitted, inputData, audioData>>

\* startVoiceChat up to its await: the guards, the config push, and the
\* getUserMedia request
StartVoiceChat ==
  /\ mounted
  /\ isConnected
  /\ ~isRecording
  /\ pendingMedia + Cardinality(liveStreams) < MaxCaptures
  /\ sttSocket.cfg < MaxConfigs
  /\ sttSocket' = UpdateSttServerConfig(sttSocket)
  /\ pendingMedia' = pendingMedia + 1
  /\ UNCHANGED <<sttOld, ttsSocket, ttsOld, isSttConnected, isTtsConnected,
                 connectionStatusClass, isRecording, mediaStream,
                 audioContext, audioProcessor, liveStreams, liveContexts,
                 liveProcessors, segVars, playVars, envVars, convVars>>

\* a capture resource the browser hands out: one not alive at the moment
FreshId == CHOOSE n \in 1..(MaxCaptures + 1) :
             n \notin (liveStreams \cup liveContexts \cup liveProcessors)

\* startVoiceChat after the await, getUserMedia having resolved.  outcome:
\* "ok", or the step of the try block that throws ("ctxFail": new
\* AudioContext, "procFail": createMediaStreamSource/createScriptProcessor)
GetUserMediaResolved(outcome) ==
  /\ pendingMedia > 0
  /\ pendingMedia' = pendingMedia - 1
  /\ mediaStream' = FreshId
  /\ liveStreams' = liveStreams \cup {FreshId}
  /\ IF outcome = "ctxFail"
     THEN UNCHANGED <<audioContext, liveContexts>>
     ELSE /\ audioContext' = FreshId
          /\ liveContexts' = liveContexts \cup {FreshId}
  /\ IF outcome = "ok"
     THEN /\ audioProcessor' = FreshId
          /\ liveProcessors' = liveProcessors \cup {FreshId}
          /\ isRecording' = TRUE
     ELSE UNCHANGED <<audioProcessor, liveProcessors, isRecording>>
  /\ UNCHANGED <<chanVars, segVars, playVars, envVars, convVars>>

\* startVoiceChat after the await, getUserMedia having rejected
GetUserMediaRejected ==
  /\ pendingMedia > 0
  /\ pendingMedia' = pendingMedia - 1
  /\ UNCHANGED <<chanVars, isRecording, mediaStream, audioContext,
                 audioProcessor, liveStreams, liveContexts, liveProcessors,
                 segVars, playVars, envVars, convVars>>

(* ------------------------------ channels ------------------------------ *)
\* connectWebSocket, reached through the connect button: connectSttSocket
\* and connectTtsSocket close the held socket and replace it
ConnectWebSocket ==
  /\ mounted
  /\ ~connectBtnDisabled
  /\ OldCount(Supersede(sttOld, CloseCall(sttSocket))) < MaxSockets
  /\ OldCount(Supersede(ttsOld, CloseCall(ttsSocket))) < MaxSockets
  /\ connectionStatusClass' = "processing"
  /\ sttOld' = Supersede(sttOld, CloseCall(sttSocket))
  /\ sttSocket' = NewSocket
  /\ ttsOld' = Supersede(ttsOld, CloseCall(ttsSocket))
  /\ ttsSocket' = NewSocket
  /\ UNCHANGED <<isSttConnected, isTtsConnected, recVars, segVars, playVars, envVars, convVars>>

\* disconnectWebSocket, with resetConnectionState, reached through the
\* disconnect button
DisconnectWebSocket ==
  /\ mounted
  /\ sttSocket' = CloseCall(sttSocket)
  /\ ttsSocket' = CloseCall(ttsSocket)
  /\ StopVoiceChat
  /\ isSttConnected' = FALSE
  /\ isTtsConnected' = FALSE
  /\ connectionStatusClass' = CombinedStatusClass(FALSE, FALSE)
  /\ UNCHANGED <<sttOld, ttsOld, silenceFrames, nFrames, frameLog,
                 lastRms, segStart, emitted, inputData, audioData,
                 playVars, envVars, convVars>>

\* the onUnmounted hook: disconnectWebSocket, then audioContext.value.close()
\* when a context is still held; stopVoiceChat nulls the handle of a
\* recording, so the second close acts only when recording was off
Unmount ==
  /\ mounted
  /\ mounted' = FALSE
  /\ sttSocket' = CloseCall(sttSocket)
  /\ ttsSocket' = CloseCall(ttsSocket)
  /\ isSttConnected' = FALSE
  /\ isTtsConnected' = FALSE
  /\ connectionStatusClass' = CombinedStatusClass(FALSE, FALSE)
  /\ IF isRecording
     THEN StopVoiceChat
     ELSE /\ liveContexts' = liveContexts \ {audioContext}
          /\ UNCHANGED <<isRecording, pendingMedia, mediaStream, audioContext,
                         audioProcessor, liveStreams, liveProcessors,
                         isClientSpeaking, speechFrames, discarded>>
  /\ UNCHANGED <<sttOld, ttsOld, silenceFrames, nFrames, frameLog,
                 lastRms, segStart, emitted, inputData, audioData, playVars, convVars,
                 live2dPresent, live2dVisible, settings>>

\* the onopen handler of connectSttSocket; only the held socket can open,
\* a superseded one has had close() called
SttOnOpen ==
  /\ sttSocket.rs = "CONNECTING"
  /\ isSttConnected' = TRUE
  /\ connectionStatusClass' = CombinedStatusClass(TRUE, isTtsConnected)
  /\ sttSocket' = UpdateSttServerConfig([sttSocket EXCEPT !.rs = "OPEN"])
  /\ UNCHANGED <<sttOld, ttsSocket, ttsOld, isTtsConnected, recVars, segVars,
                 playVars, envVars, convVars>>

\* the server starts the closing handshake: readyState becomes CLOSING, no
\* handler runs
SttPeerClosing ==
  /\ sttSocket.rs = "OPEN"
  /\ sttSocket' = [sttSocket EXCEPT !.rs = "CLOSING"]
  /\ UNCHANGED <<sttOld, ttsSocket, ttsOld, isSttConnected, isTtsConnected,
                 connectionStatusClass, recVars, segVars, playVars, envVars, convVars>>

\* the onclose handler of connectSttSocket
SttCloseHandler ==
  /\ isSttConnected' = FALSE
  /\ StopVoiceChat
  /\ connectionStatusClass' = CombinedStatusClass(FALSE, isTtsConnected)
  /\ UNCHANGED <<ttsSocket, ttsOld, isTtsConnected, silenceFrames,
                 nFrames, frameLog, lastRms, segStart, emitted, inputData,
                 audioData, playVars, envVars, convVars>>

\* the onerror handler of connectSttSocket
SttErrorHandler ==
  /\ isSttConnected' = FALSE
  /\ connectionStatusClass' = CombinedStatusClass(FALSE, isTtsConnected)
  /\ UNCHANGED <<ttsSocket, ttsOld, isTtsConnected, recVars, segVars,
                 playVars, envVars, convVars>>

\* close event of the held recognition socket
SttOnClose ==
  /\ ~sttSocket.closed
  /\ sttSocket' = [sttSocket EXCEPT !.rs = "CLOSED", !.closed = TRUE]
  /\ SttCloseHandler
  /\ UNCHANGED sttOld

\* an error handler that connects again
SocketAfterErrorReconnecting(s) == NewSocket

\* the socket held once an onerror handler has run: the handlers call neither
\* connectSttSocket nor connectTtsSocket
SocketAfterError(s) == s

\* error event of the held recognition socket; its close event follows
SttOnError ==
  /\ sttSocket.rs \notin {"NULL", "CLOSED"}
  /\ sttSocket' = SocketAfterError([sttSocket EXCEPT !.rs = "CLOSED"])
  /\ SttErrorHandler
  /\ UNCHANGED sttOld

\* close event of a superseded recognition socket
SttOldOnClose ==
  /\ OldCount(sttOld) > 0
  /\ \E k \in {"closing", "errored"} :
       /\ sttOld[k] > 0
       /\ sttOld' = [sttOld EXCEPT ![k] = @ - 1]
  /\ SttCloseHandler
  /\ UNCHANGED sttSocket

\* error event of a superseded recognition socket
SttOldOnError ==
  /\ sttOld.closing > 0
  /\ sttOld' = [closing |-> sttOld.closing - 1, errored |-> sttOld.errored + 1]
  /\ SttErrorHandler
  /\ UNCHANGED sttSocket

\* the onopen handler of connectTtsSocket
TtsOnOpen ==
  /\ ttsSocket.rs = "CONNECTING"
  /\ ttsSocket' = [ttsSocket EXCEPT !.rs = "OPEN"]
  /\ isTtsConnected' = TRUE
  /\ connectionStatusClass' = CombinedStatusClass(isSttConnected, TRUE)
  /\ UNCHANGED <<sttSocket, sttOld, ttsOld, isSttConnected, recVars, segVars,
                 playVars, envVars, convVars>>

TtsPeerClosing ==
  /\ ttsSocket.rs = "OPEN"
  /\ ttsSocket' = [ttsSocket EXCEPT !.rs = "CLOSING"]
  /\ UNCHANGED <<sttSocket, sttOld, ttsOld, isSttConnected, isTtsConnected,
                 connectionStatusClass, recVars, segVars, playVars, envVars, convVars>>

\* the onclose and onerror handlers of connectTtsSocket
TtsCloseHandler ==
  /\ isTtsConnected' = FALSE
  /\ connectionStatusClass' = CombinedStatusClass(isSttConnected, FALSE)
  /\ UNCHANGED <<sttSocket, sttOld, isSttConnected, recVars, segVars,
                 playVars, envVars, convVars>>

TtsErrorHandler ==
  /\ isTtsConnected' = FALSE
  /\ connectionStatusClass' = CombinedStatusClass(isSttConnected, FALSE)
  /\ UNCHANGED <<sttSocket, sttOld, isSttConnected, recVars, segVars,
                 playVars, envVars, convVars>>

TtsOnClose ==
  /\ ~ttsSocket.closed
  /\ ttsSocket' = [ttsSocket EXCEPT !.rs = "CLOSED", !.closed = TRUE]
  /\ TtsCloseHandler
  /\ UNCHANGED ttsOld

TtsOnError ==
  /\ ttsSocket.rs \notin {"NULL", "CLOSED"}
  /\ ttsSocket' = SocketAfterError([ttsSocket EXCEPT !.rs = "CLOSED"])
  /\ TtsErrorHandler
  /\ UNCHANGED ttsOld

TtsOldOnClose ==
  /\ OldCount(ttsOld) > 0
  /\ \E k \in {"closing", "errored"} :
       /\ ttsOld[k] > 0
       /\ ttsOld' = [ttsOld EXCEPT ![k] = @ - 1]
  /\ TtsCloseHandler
  /\ UNCHANGED ttsSocket

TtsOldOnError ==
  /\ ttsOld.closing > 0
  /\ ttsOld' = [closing |-> ttsOld.closing - 1, errored |-> ttsOld.errored + 1]
  /\ TtsErrorHandler
  /\ UNCHANGED ttsSocket

(* ------------------------------- framer ------------------------------- *)
\* A sample n is held as the integer h = n * 65536, so that n * 32768 is h / 2
\* and can fall halfway between two integers.  Every such n has at most 18
\* significant bits and passes unrounded through the Float32Array that
\* inputData.map returns.
FullScale == 65536

\* the samples tried: a grid over the admitted range, and the values around
\* zero, around both boundaries and at both ends
SampleInputs ==
  LET top == MaxOverdrive * (FullScale \div 2) IN
    {h \in -top..top : h % 257 = 0}
      \cup (-4..4)
      \cup {FullScale + d : d \in -6..6} \cup {d - FullScale : d \in -6..6}
      \cup {top, -top}

Min(a, b) == IF a < b THEN a ELSE b
Max(a, b) == IF a > b THEN a ELSE b

\* the scaled sample handed on as it is
SaturateNot(h) == h

\* Math.max(-32768, Math.min(32767, n * 32768)), in halves
Saturate(h) == Max(-FullScale, Min(FullScale - 2, h))

\* the element conversion of new Int16Array(...): the fraction is dropped
\* (towards zero) and the integer reduced modulo 2^16 into -32768..32767
ToInt16(h) ==
  LET t == IF h >= 0 THEN h \div 2 ELSE -((-h) \div 2)
  IN ((t + 32768) % 65536) - 32768

\* one element of audioData for the sample h
Framer(h) == ToInt16(Saturate(h))

\* processAudio converts a sample of the block it was given
FrameSample(h) ==
  /\ inputData' = h
  /\ audioData' = Framer(h)
  /\ UNCHANGED <<chanVars, recVars, playVars, envVars, convVars, speechFrames,
                 silenceFrames, isClientSpeaking, nFrames, frameLog, lastRms,
                 segStart, emitted, discarded>>

(* ------------------------------ segmenter ----------------------------- *)
\* a block at the threshold taken for speech
IsSpeechInclusive(rms) == rms >= AUDIO_RMS_THRESHOLD

\* const isSpeech = rms > AUDIO_CONFIG.AUDIO_RMS_THRESHOLD
IsSpeech(rms) == rms > AUDIO_RMS_THRESHOLD

\* the padding test made strict
KeepsPaddingStrict(silence) == silence < SPEECH_PADDING_FRAMES

\* silenceFrames.value <= SPEECH_PADDING_FRAMES: the quiet block is kept
KeepsPadding(silence) == silence <= SPEECH_PADDING_FRAMES

\* the end of the utterance tested against the padding length
EndsUtteranceAtPadding(silence) == silence >= SPEECH_PADDING_FRAMES

\* silenceFrames.value >= MAX_SILENCE_FRAMES: the utterance has ended
EndsUtterance(silence) == silence >= MAX_SILENCE_FRAMES

\* the silence run left as it is by a speech block
SilenceNotReset == silenceFrames

\* silenceFrames.value = 0 after a speech block
SilenceAfterSpeech == 0

\* sendAudioToServer: whether the message is transmitted
SendsAudio == sttSocket.rs = "OPEN"

\* the record of one call of sendAudioToServer(concatenateAudioChunks(frames))
Emission(frames, n) ==
  [frames |-> frames, open |-> segStart, at |-> n,
   sent |-> SendsAudio, ready |-> isConnected, ttsOpen |-> ttsSocket.rs = "OPEN"]

\* processAudio, on the onaudioprocess event of a connected processor
ProcessAudio(rms) ==
  /\ liveProcessors # {}
  /\ isRecording
  /\ nFrames < MaxFrames
  /\ nFrames' = nFrames + 1
  /\ frameLog' = Append(frameLog, IsSpeech(rms))
  /\ lastRms' = rms
  /\ IF IsSpeech(rms)
     THEN /\ isClientSpeaking' = TRUE
          /\ segStart' = IF isClientSpeaking THEN segStart ELSE nFrames'
          /\ speechFrames' = Append(speechFrames, nFrames')
          /\ silenceFrames' = SilenceAfterSpeech
          /\ UNCHANGED emitted
     ELSE IF isClientSpeaking
     THEN LET frames == IF KeepsPadding(silenceFrames + 1)
                        THEN Append(speechFrames, nFrames')
                        ELSE speechFrames
          IN /\ silenceFrames' = silenceFrames + 1
             /\ IF EndsUtterance(silenceFrames + 1)
                THEN /\ emitted' = IF Len(frames) > 0
                                   THEN Append(emitted, Emission(frames, nFrames'))
                                   ELSE emitted
                     /\ isClientSpeaking' = FALSE
                     /\ speechFrames' = <<>>
                ELSE /\ speechFrames' = frames
                     /\ UNCHANGED <<emitted, isClientSpeaking>>
             /\ UNCHANGED segStart
     ELSE UNCHANGED <<isClientSpeaking, segStart, speechFrames, silenceFrames, emitted>>
  /\ UNCHANGED <<chanVars, recVars, playVars, envVars, convVars, discarded,
                 inputData, audioData>>

(* ---------------------------- conversation ---------------------------- *)
\* shapes of a message on the recognition channel
SttKinds == {"recognition_result", "recognitionNoText", "llm_response",
             "llmNoText", "llmNoData", "error", "unknown", "badJson"}

\* event.data of each shape of message; type "" stands for data JSON.parse
\* rejects
SttMessage(kind) ==
  LET m == [json |-> TRUE, type |-> kind, hasText |-> TRUE, hasData |-> TRUE]
  IN CASE kind = "recognitionNoText" ->
            [m EXCEPT !.type = "recognition_result", !.hasText = FALSE]
       [] kind = "llmNoText" -> [m EXCEPT !.type = "llm_response", !.hasText = FALSE]
       [] kind = "llmNoData" -> [m EXCEPT !.type = "llm_response", !.hasData = FALSE]
       [] kind = "badJson" -> [m EXCEPT !.json = FALSE, !.type = ""]
       [] OTHER -> m

\* a turn put in front of the earlier ones
AddMessageToConversationFirst(h, text, sender) ==
  <<[sender |-> sender, text |-> text]>> \o h

\* addMessageToConversation
AddMessageToConversation(h, text, sender) ==
  Append(h, [sender |-> sender, text |-> text])

\* handleRecognitionResult: message.text || ''
HandleRecognitionResult(h, m) ==
  AddMessageToConversation(h, IF m.hasText THEN "a" ELSE "", "user")

\* handleLLMResponse(message.data): data.text throws when data is undefined,
\* the history is then left as it was
HandleLLMResponse(h, m) ==
  IF ~m.hasData THEN h
  ELSE AddMessageToConversation(h, IF m.hasText THEN "a" ELSE "undefined", "assistant")

\* handleSttMessage, for a message of the given shape on the open recognition
\* socket
HandleSttMessage(kind) ==
  /\ sttSocket.rs = "OPEN"
  /\ Len(sttMessages) < MaxSttMessages
  /\ sttMessages' = Append(sttMessages, SttMessage(kind).type)
  /\ LET m == SttMessage(kind) IN
       conversationHistory' =
         IF ~m.json THEN conversationHistory
         ELSE CASE m.type = "recognition_result" ->
                     HandleRecognitionResult(conversationHistory, m)
                [] m.type = "llm_response" ->
                     HandleLLMResponse(conversationHistory, m)
                [] OTHER -> conversationHistory
  /\ UNCHANGED <<chanVars, recVars, segVars, playVars, envVars>>

(* ------------------------------ playback ------------------------------ *)
NoAudio == [url |-> 0, text |-> "", isBlob |-> FALSE, id |-> ""]

\* the audio element of AudioOutput has a source whose events can fire
AudioElementLoaded == currentAudio # NoAudio

\* playNextAudio without the isPlaying test of its early return
PlayStartsWhilePlaying(q, playing) == Len(q) > 0

\* playNextAudio does not return early on queue q with flag playing
PlayStarts(q, playing) == Len(q) > 0 /\ ~playing

\* the queue head once playNextAudio has stamped its id on it
Stamped(q) == [q EXCEPT ![1].id = "assistant-audio"]

\* the avatar notified whenever it is injected, shown or not
NotifiesAvatarIfPresent == live2dPresent

\* playNextAudio: live2dControls && live2dControls.isVisible.value
NotifiesAvatar == live2dPresent /\ live2dVisible

\* playNextAudio, run on queue q with isPlaying = playing and
\* currentAudio = cur
PlayNextAudio(q, playing, cur) ==
  IF PlayStarts(q, playing)
  THEN /\ audioQueue' = Stamped(q)
       /\ currentAudio' = Stamped(q)[1]
       /\ isPlaying' = TRUE
       /\ played' = Append(played, q[1].url)
       /\ IF NotifiesAvatar
          THEN /\ speakCalls' = speakCalls + 1
               /\ avatarSpeaking' = TRUE
               /\ playEvents' = [n |-> playEvents.n + 1,
                                 audioUrl |-> q[1].url, text |-> q[1].text]
          ELSE UNCHANGED <<speakCalls, playEvents, avatarSpeaking>>
  ELSE /\ audioQueue' = q
       /\ isPlaying' = playing
       /\ currentAudio' = cur
       /\ UNCHANGED <<played, speakCalls, playEvents, avatarSpeaking>>

\* Array.prototype.shift
Shift(q) == IF Len(q) = 0 THEN q ELSE Tail(q)

\* a fragment put at the head of the queue instead of its tail
PushFront(q, item) == <<item>> \o q

\* audioQueue.value.push(item)
Push(q, item) == Append(q, item)

\* the characters of the base64 alphabet that occur in the payloads
Base64Chars == {"Q", "U", "J", "D", "u", "n", "d", "e", "f", "i"}

\* String(undefined), what atob is given when audio_base64 is missing
UndefinedChars == <<"u", "n", "d", "e", "f", "i", "n", "e", "d">>

\* atob accepting whatever it is given
AtobNeverThrows(data) == FALSE

\* atob(data) throws: a character outside the alphabet, or a length that
\* leaves a remainder of 1 when divided by 4
AtobThrows(data) ==
  \/ \E i \in DOMAIN data : data[i] \notin Base64Chars
  \/ Len(data) % 4 = 1

\* event.data of each shape of message
TtsMessage(kind) ==
  LET audio == [pong |-> FALSE, json |-> TRUE, type |-> "audio", hasText |-> TRUE,
                hasBase64 |-> TRUE, audio_base64 |-> <<"Q", "U", "J", "D">>]
  IN CASE kind = "pong" -> [audio EXCEPT !.pong = TRUE, !.json = FALSE]
       [] kind = "badJson" -> [audio EXCEPT !.json = FALSE]
       [] kind = "other" -> [audio EXCEPT !.type = "status"]
       [] kind = "audio" -> audio
       [] kind = "noText" -> [audio EXCEPT !.hasText = FALSE]
       [] kind = "noBase64" -> [audio EXCEPT !.hasBase64 = FALSE]
       [] kind = "badBase64" -> [audio EXCEPT !.audio_base64 = <<"Q", "U", "*", "D">>]

\* how handleTtsMessage leaves: "ignored" by one of its returns, "caught" by
\* its catch block, or "queued" after the push
TtsOutcome(kind) ==
  LET m == TtsMessage(kind) IN
    IF m.pong THEN "ignored"
    ELSE IF ~m.json THEN "caught"
    ELSE IF m.type # "audio" THEN "ignored"
    ELSE IF ~m.hasText THEN "caught"
    ELSE IF AtobThrows(IF m.hasBase64 THEN m.audio_base64 ELSE UndefinedChars)
    THEN "caught"
    ELSE "queued"

\* whether handleTtsMessage reaches audioQueue.value.push for this message
IsFragment(kind) == TtsOutcome(kind) = "queued"

\* handleTtsMessage, for a message of the given shape on an open synthesis
\* socket
HandleTtsMessage(kind, text) ==
  /\ ttsSocket.rs = "OPEN"
  /\ IF IsFragment(kind)
     THEN /\ nextUrl <= MaxFragments
          /\ nextUrl' = nextUrl + 1
          /\ lateArrival' = (lateArrival \/ endedCount + errorCount > 0)
          /\ UNCHANGED parseFailures
          /\ LET q == Push(audioQueue,
                           [url |-> nextUrl, text |-> text, isBlob |-> TRUE, id |-> ""])
             IN IF ~isPlaying
                THEN PlayNextAudio(q, isPlaying, currentAudio)
                ELSE /\ audioQueue' = q
                     /\ UNCHANGED <<isPlaying, currentAudio, played, speakCalls,
                                    playEvents, avatarSpeaking>>
     ELSE /\ IF TtsOutcome(kind) = "caught"
             THEN /\ parseFailures < MaxDrops
                  /\ parseFailures' = parseFailures + 1
             ELSE UNCHANGED parseFailures
          /\ UNCHANGED <<audioQueue, isPlaying, currentAudio, played, speakCalls, avatarSpeaking,
                         playEvents, nextUrl, lateArrival>>
  /\ UNCHANGED <<chanVars, recVars, segVars, envVars, convVars, pendingTimers, revoked,
                 stopSpeakingCalls, drainEvents, endedCount, errorCount>>

\* the blob URL of a finished item never revoked
RevokeNothing(item) == revoked

\* URL.revokeObjectURL(item.url) when the item owns a blob URL
Revoke(item) == IF item.isBlob THEN [revoked EXCEPT ![item.url] = @ + 1] ELSE revoked

\* the avatar told to stop after every finished item
SignalsDrainAlways(hasNextAudio) == live2dPresent

\* onAudioEnded: !hasNextAudio && live2dControls
SignalsDrain(hasNextAudio) == ~hasNextAudio /\ live2dPresent

\* onAudioEnded never scheduling the advance
SchedulesAdvanceNever(q) == FALSE

\* onAudioEnded: audioQueue.value.length > 0 after the shift
SchedulesAdvance(q) == Len(q) > 0

\* onAudioEnded, on the audio-ended event of AudioOutput
OnAudioEnded ==
  /\ AudioElementLoaded
  /\ LET hasNextAudio == Len(audioQueue) > 1
         q == Shift(audioQueue)
     IN /\ revoked' = IF Len(audioQueue) > 0 THEN Revoke(audioQueue[1]) ELSE revoked
        /\ audioQueue' = q
        /\ isPlaying' = FALSE
        /\ currentAudio' = NoAudio
        /\ IF SignalsDrain(hasNextAudio)
           THEN /\ stopSpeakingCalls' = stopSpeakingCalls + 1
                /\ avatarSpeaking' = FALSE
                /\ drainEvents' = drainEvents + 1
           ELSE UNCHANGED <<stopSpeakingCalls, drainEvents, avatarSpeaking>>
        /\ pendingTimers' = IF SchedulesAdvance(q) THEN pendingTimers + 1 ELSE pendingTimers
  /\ endedCount' = endedCount + 1
  /\ UNCHANGED <<chanVars, recVars, segVars, envVars, convVars, nextUrl, played, speakCalls,
                 playEvents, errorCount, lateArrival, parseFailures>>

\* onAudioError, on the audio-error event of AudioOutput
OnAudioError ==
  /\ AudioElementLoaded
  /\ PlayNextAudio(Shift(audioQueue), FALSE, NoAudio)
  /\ errorCount' = errorCount + 1
  /\ UNCHANGED <<chanVars, recVars, segVars, envVars, convVars, pendingTimers, nextUrl, revoked,
                 stopSpeakingCalls, drainEvents, endedCount, lateArrival, parseFailures>>

\* the callback of setTimeout(() => playNextAudio(), 50)
AdvanceTimer ==
  /\ pendingTimers > 0
  /\ pendingTimers' = pendingTimers - 1
  /\ PlayNextAudio(audioQueue, isPlaying, currentAudio)
  /\ UNCHANGED <<chanVars, recVars, segVars, envVars, convVars, nextUrl, revoked,
                 stopSpeakingCalls, drainEvents, endedCount, errorCount, lateArrival,
                 parseFailures>>

\* a config-panel input is edited; the three inputs carry
\* :disabled="isConnected"
EditSetting(field, text) ==
  /\ mounted
  /\ ~isConnected
  /\ settings[field] # text
  /\ settings' = [settings EXCEPT ![field] = text]
  /\ UNCHANGED <<chanVars, recVars, segVars, playVars, convVars, live2dPresent,
                 live2dVisible, mounted>>

\* the avatar is shown or hidden (live2dControls.isVisible changes)
SetVisible(b) ==
  /\ live2dPresent
  /\ live2dVisible # b
  /\ live2dVisible' = b
  /\ UNCHANGED <<chanVars, recVars, segVars, playVars, convVars, live2dPresent, mounted,
                 settings>>

(* --------------------------- specifications --------------------------- *)
\* the playback state and the segmenter state after setup()
InitMedia ==
  /\ speechFrames = <<>> /\ silenceFrames = 0 /\ isClientSpeaking = FALSE
  /\ nFrames = 0 /\ frameLog = <<>> /\ lastRms = 0 /\ segStart = 0
  /\ discarded = {}
  /\ inputData = 0 /\ audioData = 0
  /\ emitted = <<>>
  /\ audioQueue = <<>> /\ isPlaying = FALSE /\ currentAudio = NoAudio
  /\ pendingTimers = 0
  /\ nextUrl = 1
  /\ revoked = [u \in 1..(MaxFragments + 1) |-> 0]
  /\ played = <<>>
  /\ avatarSpeaking = FALSE
  /\ speakCalls = 0 /\ stopSpeakingCalls = 0 /\ drainEvents = 0
  /\ playEvents = [n |-> 0, audioUrl |-> 0, text |-> ""]
  /\ endedCount = 0 /\ errorCount = 0 /\ lateArrival = FALSE
  /\ parseFailures = 0
  /\ conversationHistory = <<[sender |-> "assistant", text |-> "greeting"]>>
  /\ sttMessages = <<>>

\* the component after setup()
Init ==
  /\ sttSocket = NoSocket /\ sttOld = NoOld
  /\ ttsSocket = NoSocket /\ ttsOld = NoOld
  /\ isSttConnected = FALSE /\ isTtsConnected = FALSE
  /\ connectionStatusClass = "disconnected"
  /\ isRecording = FALSE /\ pendingMedia = 0
  /\ mediaStream = 0 /\ audioContext = 0 /\ audioProcessor = 0
  /\ liveStreams = {} /\ liveContexts = {} /\ liveProcessors = {}
  /\ InitMedia
  /\ mounted = TRUE
  /\ settings = DefaultSettings
  /\ live2dPresent \in BOOLEAN
  /\ live2dVisible \in BOOLEAN
  /\ (live2dVisible => live2dPresent)

ChannelNext ==
  \/ ConnectWebSocket
  \/ DisconnectWebSocket
  \/ SttOnOpen \/ SttPeerClosing \/ SttOnClose \/ SttOnError
  \/ SttOldOnClose \/ SttOldOnError
  \/ TtsOnOpen \/ TtsPeerClosing \/ TtsOnClose \/ TtsOnError
  \/ TtsOldOnClose \/ TtsOldOnError

RecordingNext ==
  \/ StartVoiceChat
  \/ StopRecord
  \/ \E outcome \in {"ok", "ctxFail", "procFail"} : GetUserMediaResolved(outcome)
  \/ GetUserMediaRejected

SegmenterNext == \E rms \in RmsLevels : ProcessAudio(rms)

PlaybackNext ==
  \/ \E kind \in TtsKinds, text \in Texts : HandleTtsMessage(kind, text)
  \/ OnAudioEnded
  \/ OnAudioError
  \/ AdvanceTimer
  \/ \E b \in BOOLEAN : SetVisible(b)

FramerNext == \E h \in SampleInputs : FrameSample(h)

SettingsNext == \E field \in SettingFields, text \in SettingTexts : EditSetting(field, text)

ConversationNext == \E kind \in SttKinds : HandleSttMessage(kind)

Next ==
  \/ ChannelNext \/ RecordingNext \/ SegmenterNext \/ PlaybackNext
  \/ ConversationNext
  \/ Unmount
  \/ SettingsNext
  \/ FramerNext

Spec == Init /\ [][Next]_vars

\* the synthesis channel and the playback queue: the handlers that read or
\* write audioQueue, isPlaying and currentAudio, and the life of the socket
\* that delivers the fragments
TtsChannelNext ==
  \/ ConnectWebSocket
  \/ DisconnectWebSocket
  \/ TtsOnOpen \/ TtsPeerClosing \/ TtsOnClose \/ TtsOnError
  \/ TtsOldOnClose \/ TtsOldOnError

SpecPlayback == Init /\ [][TtsChannelNext \/ PlaybackNext]_vars

\* the two channels and the recording controls, without audio blocks and
\* without synthesis messages
RecordControlNext ==
  \/ StartVoiceChat
  \/ StopRecord
  \/ GetUserMediaResolved("ok")
  \/ GetUserMediaRejected

SpecChannels == Init /\ [][ChannelNext \/ RecordControlNext]_vars

\* the component while listening: connectWebSocket, both sockets open (the
\* config pushed by stt.onopen), startVoiceChat and getUserMedia resolved
Listening ==
  /\ sttSocket = [rs |-> "OPEN", closed |-> FALSE, cfg |-> 2] /\ sttOld = NoOld
  /\ ttsSocket = [rs |-> "OPEN", closed |-> FALSE, cfg |-> 0] /\ ttsOld = NoOld
  /\ isSttConnected = TRUE /\ isTtsConnected = TRUE
  /\ connectionStatusClass = "connected"
  /\ isRecording = TRUE /\ pendingMedia = 0
  /\ mediaStream = 1 /\ audioContext = 1 /\ audioProcessor = 1
  /\ liveStreams = {1} /\ liveContexts = {1} /\ liveProcessors = {1}
  /\ InitMedia

InitListening ==
  /\ Listening
  /\ mounted = TRUE
  /\ settings = DefaultSettings
  /\ live2dPresent = FALSE /\ live2dVisible = FALSE

\* the segmenter while listening: audio blocks, the recording controls, and
\* the ways the channels can go away under it
SegmenterEnvNext ==
  \/ StopRecord
  \/ SttPeerClosing
  \/ TtsOnClose

SpecSegmenter == InitListening /\ [][SegmenterNext \/ SegmenterEnvNext]_vars

\* the segmenter across stop and restart: audio blocks, every caller of
\* stopVoiceChat (the stop button, disconnectWebSocket, the close event of the
\* recognition socket), and the steps that start recording again on the open
\* channels
RestartNext ==
  \/ StopRecord
  \/ DisconnectWebSocket
  \/ SttOnClose
  \/ StartVoiceChat
  \/ GetUserMediaResolved("ok")

\* audio blocks, up to MaxRestartFrames of them
RestartSegmenterNext == nFrames < MaxRestartFrames /\ SegmenterNext

SpecRestart == InitListening /\ [][RestartSegmenterNext \/ RestartNext]_vars

\* the component with both channels open and recording off: connectWebSocket
\* and both opens (the config pushed by stt.onopen)
Synthesizing ==
  /\ sttSocket = [rs |-> "OPEN", closed |-> FALSE, cfg |-> 1] /\ sttOld = NoOld
  /\ ttsSocket = [rs |-> "OPEN", closed |-> FALSE, cfg |-> 0] /\ ttsOld = NoOld
  /\ isSttConnected = TRUE /\ isTtsConnected = TRUE
  /\ connectionStatusClass = "connected"
  /\ isRecording = FALSE /\ pendingMedia = 0
  /\ mediaStream = 0 /\ audioContext = 0 /\ audioProcessor = 0
  /\ liveStreams = {} /\ liveContexts = {} /\ liveProcessors = {}
  /\ InitMedia

InitSynthesizing ==
  /\ Synthesizing
  /\ mounted = TRUE
  /\ settings = DefaultSettings
  /\ live2dPresent \in BOOLEAN
  /\ live2dVisible \in BOOLEAN
  /\ (live2dVisible => live2dPresent)

\* the playback queue fed by an open synthesis socket, until that socket
\* closes
SpecQueue == InitSynthesizing /\ [][PlaybackNext \/ TtsOnClose]_vars

\* the same, where the audio element ends or fails every item it is playing
\* and every timer set by onAudioEnded fires
SpecQueueFair ==
  /\ SpecQueue
  /\ WF_vars(OnAudioEnded \/ OnAudioError)
  /\ WF_vars(AdvanceTimer)

\* the playback queue while the connections go away: the queue handlers, and
\* disconnectWebSocket and the close and error events of both held sockets
GoneNext ==
  \/ DisconnectWebSocket
  \/ SttOnClose \/ SttOnError
  \/ TtsOnClose \/ TtsOnError

\* the queue handlers, the avatar staying shown or hidden as it is
QueueNext ==
  \/ \E kind \in TtsKinds, text \in Texts : HandleTtsMessage(kind, text)
  \/ OnAudioEnded
  \/ OnAudioError
  \/ AdvanceTimer

SpecDrain == InitSynthesizing /\ [][QueueNext \/ GoneNext]_vars

\* the same, where the audio element ends or fails every item it is playing
\* and every timer set by onAudioEnded fires
SpecDrainFair ==
  /\ SpecDrain
  /\ WF_vars(OnAudioEnded \/ OnAudioError)
  /\ WF_vars(AdvanceTimer)

\* the two senders on the recognition socket, updateSttServerConfig (from
\* startVoiceChat) and sendAudioToServer (from processAudio), while the peer
\* may start closing that socket under the connected flag
SendNext ==
  \/ StartVoiceChat
  \/ GetUserMediaResolved("ok")
  \/ SttPeerClosing

SpecSend == InitSynthesizing /\ [][RestartSegmenterNext \/ SendNext]_vars

\* the capture device under the connected component: the recording controls,
\* every way getUserMedia and the rest of startVoiceChat can come out, and
\* the teardown by disconnectWebSocket or by unmount
CaptureNext ==
  \/ RecordingNext
  \/ DisconnectWebSocket
  \/ Unmount

SpecCapture == InitSynthesizing /\ [][CaptureNext]_vars

\* the sample conversion of processAudio on its own, while listening
SpecFramer == InitListening /\ [][FramerNext]_vars

\* the config panel under the two channels
SpecSettings == Init /\ [][ChannelNext \/ SettingsNext]_vars

\* the conversation log under the recognition channel: its messages, and
\* disconnect and reconnect
SpecConversation ==
  InitSynthesizing /\
    [][ConversationNext \/ DisconnectWebSocket \/ ConnectWebSocket
         \/ SttOnOpen \/ SttOnClose]_vars

(* ------------------------- playback queue claims ---------------------- *)
\* fragments received so far
Arrived == nextUrl - 1

\* the items of the queue that have been current (playNextAudio stamps them)
StampedItems == {i \in DOMAIN audioQueue : audioQueue[i].id # ""}

C1_OneCurrent ==
  /\ isPlaying <=> currentAudio # NoAudio
  /\ isPlaying => Len(audioQueue) > 0 /\ currentAudio = audioQueue[1]
  /\ Cardinality(StampedItems) <= 1
  /\ \A i \in StampedItems : i = 1 /\ isPlaying

C1_EnqueueAppends ==
  (isPlaying /\ nextUrl' # nextUrl) =>
     /\ Len(audioQueue') = Len(audioQueue) + 1
     /\ SubSeq(audioQueue', 1, Len(audioQueue)) = audioQueue
     /\ audioQueue'[Len(audioQueue')].url = nextUrl
     /\ currentAudio' = currentAudio
     /\ isPlaying' = isPlaying

\* C1: in every reachable state at most one item is current; while isPlaying
\* holds the queue is non-empty and currentAudio is its head; and a fragment
\* that arrives while isPlaying holds is appended at the tail and leaves
\* currentAudio and isPlaying as they were.
C1_PlaybackQueueSafe == []C1_OneCurrent /\ [][C1_EnqueueAppends]_vars

\* a fragment has arrived during playback, which it had itself restarted
\* after an ended event, ahead of the advance timer
C1_Witness ==
  /\ isPlaying /\ Len(audioQueue) >= 2
  /\ endedCount > 0 /\ pendingTimers > 0

\* C2: fragments become current in the order their messages arrived, each at
\* most once: the k-th fragment to become current is the k-th that arrived,
\* and the queue holds the latest arrivals in arrival order.
C2_StrictFifo ==
  /\ \A i \in DOMAIN played : played[i] = i
  /\ \A i \in DOMAIN audioQueue : audioQueue[i].url = Arrived - Len(audioQueue) + i

\* every fragment has been current, through ended events, an error event and
\* a timer that fired
C2_Witness ==
  /\ Len(played) = MaxFragments
  /\ endedCount > 0 /\ errorCount > 0
  /\ pendingTimers = 0

\* N fragments enqueued, then only ended events
C3_EnqueueThenEnded == Arrived >= 1 /\ ~lateArrival /\ errorCount = 0

\* C3 as stated: after N fragments and then N ended events the queue is
\* empty, drain was signalled exactly once, and every blob URL was revoked
\* exactly once.
C3_DrainSignalledOnce ==
  (C3_EnqueueThenEnded /\ endedCount = Arrived) =>
     /\ audioQueue = <<>>
     /\ drainEvents = 1
     /\ \A u \in 1..Arrived : revoked[u] = 1

\* C3 amended: after N fragments and then N ended events the queue is empty
\* and every blob URL was revoked exactly once (the k-th one at the k-th
\* ended); drain is signalled exactly once, at the N-th ended, when
\* live2dControls was injected, and never when it was not.
C3_DrainOnceIfAvatar ==
  C3_EnqueueThenEnded =>
     /\ endedCount <= Arrived
     /\ Len(audioQueue) = Arrived - endedCount
     /\ \A u \in 1..Arrived : revoked[u] = IF u <= endedCount THEN 1 ELSE 0
     /\ drainEvents = IF endedCount = Arrived /\ live2dPresent THEN 1 ELSE 0

\* all fragments enqueued first and then ended one by one, avatar present
C3_Witness ==
  /\ C3_EnqueueThenEnded
  /\ Arrived = MaxFragments /\ endedCount = Arrived
  /\ live2dPresent /\ drainEvents = 1

\* C4: on a playback error the head's blob URL is released exactly once and
\* the head is removed, as on normal completion; the next item is attempted,
\* and neither stopSpeaking nor the drain event is emitted.
C4_ErrorReleasesHead ==
  [][errorCount' # errorCount =>
       /\ revoked' = [revoked EXCEPT ![audioQueue[1].url] = 1]
       /\ Len(audioQueue') = Len(audioQueue) - 1
       /\ (Len(audioQueue') > 0 => isPlaying' /\ currentAudio' = audioQueue'[1])
       /\ UNCHANGED <<stopSpeakingCalls, drainEvents>>]_vars

(* ----------------------------- channel claims ------------------------- *)
\* C5: a finished segment is transmitted on the recognition channel only if
\* both channels are connected at that moment; one that finishes while the
\* combined readiness is Degraded or Offline is dropped.
C5_SentOnlyWhenReady ==
  \A i \in DOMAIN emitted : emitted[i].sent => emitted[i].ready

\* a step in which a config message goes out on the held recognition socket
ConfigSent == sttSocket'.cfg > sttSocket.cfg
\* the held recognition socket opens
SttOpens == sttSocket.rs = "CONNECTING" /\ sttSocket'.rs = "OPEN"
\* a startVoiceChat call passes its guards
StartPasses == pendingMedia' = pendingMedia + 1

ReadinessClass(stt, tts) ==
  LET open == (IF stt THEN 1 ELSE 0) + (IF tts THEN 1 ELSE 0)
  IN CASE open = 2 -> "connected"
       [] open = 1 -> "processing"
       [] open = 0 -> "disconnected"

\* an open, close or error event of a socket of either channel
ChannelEvent ==
  \/ SttOnOpen \/ SttOnClose \/ SttOnError \/ SttOldOnClose \/ SttOldOnError
  \/ TtsOnOpen \/ TtsOnClose \/ TtsOnError \/ TtsOldOnClose \/ TtsOldOnError

IdleBefore(k) == \A j \in 1..(k - 1) : ~frameLog[j]

\* block k is loud and the MAX_SILENCE_FRAMES blocks after it are quiet
LoudThenSilence(k) ==
  /\ nFrames >= k + MAX_SILENCE_FRAMES
  /\ frameLog[k]
  /\ \A j \in (k + 1)..(k + MAX_SILENCE_FRAMES) : ~frameLog[j]

\* C8: from Idle, a loud block followed by MAX_SILENCE_FRAMES quiet blocks
\* emits exactly one segment: the loud block and the SPEECH_PADDING_FRAMES
\* quiet blocks after it, in order, and none of the later quiet blocks; it is
\* transmitted when the recognition socket is OPEN.
C8_LoudThenSilenceEmitsPadded ==
  \A k \in 1..nFrames :
    (IdleBefore(k) /\ LoudThenSilence(k)) =>
       /\ Len(emitted) = 1
       /\ emitted[1].open = k
       /\ emitted[1].at = k + MAX_SILENCE_FRAMES
       /\ emitted[1].frames = [i \in 1..(SPEECH_PADDING_FRAMES + 1) |-> k + i - 1]
       /\ (sttSocket.rs = "OPEN" => emitted[1].sent)

\* one loud block and then MAX_SILENCE_FRAMES quiet ones, segment transmitted
C8_Witness ==
  /\ nFrames = 1 + MAX_SILENCE_FRAMES
  /\ IdleBefore(1) /\ LoudThenSilence(1)
  /\ Len(emitted) = 1 /\ emitted[1].sent

\* the blocks of a segment, as a set
FramesOf(e) == {e.frames[i] : i \in DOMAIN e.frames}
\* the speech blocks received from the opening of segment e to its emission
LoudSince(e) == {j \in e.open..e.at : frameLog[j]}
\* the quiet blocks kept in segment e
QuietIn(e) == {j \in FramesOf(e) : ~frameLog[j]}

\* C9 as stated: every emitted segment holds the speech blocks received since
\* it opened plus at most SPEECH_PADDING_FRAMES quiet blocks, all of them
\* after its last speech block.
C9_QuietOnlyTrailing ==
  \A i \in DOMAIN emitted :
    LET e == emitted[i] IN
      /\ Len(e.frames) = Cardinality(LoudSince(e)) + Cardinality(QuietIn(e))
      /\ Cardinality(QuietIn(e)) <= SPEECH_PADDING_FRAMES
      /\ \A q \in QuietIn(e), l \in LoudSince(e) : q > l

\* length of the run of quiet blocks that ends at block j (0 for a speech
\* block)
QuietRun(j) ==
  LET loud == {k \in 1..j : frameLog[k]}
  IN j - (IF loud = {} THEN 0 ELSE CHOOSE m \in loud : \A k \in loud : k <= m)

\* blocks o..a without the quiet ones past the padding of their run
Padded(o, a) ==
  SelectSeq([i \in 1..(a - o + 1) |-> o + i - 1],
            LAMBDA j : QuietRun(j) <= SPEECH_PADDING_FRAMES)

\* C9 amended: every emitted segment holds, in arrival order, the speech
\* blocks received since it opened plus, of every run of quiet blocks since
\* then, the first SPEECH_PADDING_FRAMES at most: quiet blocks of a pause
\* inside the utterance are kept too, and SPEECH_PADDING_FRAMES of them trail.
C9_PaddingAfterEachRun ==
  \A i \in DOMAIN emitted :
    LET e == emitted[i] IN
      /\ frameLog[e.open]
      /\ e.frames = Padded(e.open, e.at)
      /\ Cardinality({q \in QuietIn(e) : \A l \in LoudSince(e) : q > l})
           = SPEECH_PADDING_FRAMES

\* a segment was emitted that keeps a quiet block of a pause between two
\* speech blocks
C9_Witness ==
  \E i \in DOMAIN emitted :
    \E q \in QuietIn(emitted[i]), l \in LoudSince(emitted[i]) : q < l

\* a block was handled while the segmenter was Idle
IdleBlock == nFrames' = nFrames + 1 /\ ~isClientSpeaking

\* C10 as stated: in Idle, a block whose loudness is at or above the
\* threshold opens a segment with that block first; a block below it keeps
\* nothing and leaves the segmenter Idle.
C10_OpensAtThreshold ==
  [][IdleBlock =>
       IF lastRms' >= AUDIO_RMS_THRESHOLD
       THEN isClientSpeaking' /\ speechFrames' = <<nFrames'>>
       ELSE ~isClientSpeaking' /\ speechFrames' = <<>>]_vars

\* C10 amended: in Idle, a block whose loudness is strictly above the
\* threshold opens a segment with that block first; a block at or below the
\* threshold keeps nothing and leaves the segmenter Idle.
C10_OpensAboveThreshold ==
  [][IdleBlock =>
       IF lastRms' > AUDIO_RMS_THRESHOLD
       THEN isClientSpeaking' /\ speechFrames' = <<nFrames'>> /\ silenceFrames' = 0
       ELSE ~isClientSpeaking' /\ speechFrames' = <<>>]_vars

\* a block exactly at the threshold was handled in Idle and opened nothing
C10_Witness ==
  /\ nFrames = 1 /\ lastRms = AUDIO_RMS_THRESHOLD
  /\ ~isClientSpeaking /\ speechFrames = <<>>

\* length of the run of quiet blocks that ends at block j of log
QuietRunOf(log, j) ==
  LET loud == {k \in 1..j : log[k]}
  IN j - (IF loud = {} THEN 0 ELSE CHOOSE m \in loud : \A k \in loud : k <= m)

\* a step that emits a segment
Emits == Len(emitted') = Len(emitted) + 1

\* C11: a segment is emitted only by the block with which the silence run
\* reaches MAX_SILENCE_FRAMES quiet blocks after a speech block; a shorter run
\* of quiet blocks between speech blocks emits nothing and both speech blocks
\* end up in the same segment; right after an emission the segmenter is Idle
\* with no stored block.
C11_EmitsOnlyAtMaxSilence ==
  /\ [](\A i \in DOMAIN emitted :
          LET e == emitted[i] IN
            /\ QuietRunOf(frameLog, e.at) = MAX_SILENCE_FRAMES
            /\ \A j \in e.open..e.at :
                 /\ frameLog[j] => j \in FramesOf(e)
                 /\ (j < e.at /\ frameLog[e.open]) => QuietRunOf(frameLog, j) < MAX_SILENCE_FRAMES)
  /\ [][/\ Len(emitted') \in {Len(emitted), Len(emitted) + 1}
        /\ Emits =>
             /\ nFrames' = nFrames + 1
             /\ isClientSpeaking
             /\ silenceFrames' = MAX_SILENCE_FRAMES
             /\ QuietRunOf(frameLog', nFrames') = MAX_SILENCE_FRAMES
             /\ emitted'[Len(emitted')].at = nFrames'
             /\ ~isClientSpeaking' /\ speechFrames' = <<>>]_vars

\* a segment was just emitted that spans a pause of two quiet blocks between
\* two speech blocks
C11_Witness ==
  /\ ~isClientSpeaking /\ speechFrames = <<>>
  /\ \E i \in DOMAIN emitted :
       /\ emitted[i].at = nFrames
       /\ \E j \in LoudSince(emitted[i]) :
            /\ j + 3 \in LoudSince(emitted[i])
            /\ ~frameLog[j + 1] /\ ~frameLog[j + 2]

\* a step that stops recording while a segment is open
StopsWhileCapturing == isRecording /\ ~isRecording' /\ isClientSpeaking

\* C12: when recording is stopped while a segment is open (by the stop
\* button, by disconnectWebSocket or by the close event of the recognition
\* socket), no audio message is sent for that segment and its stored blocks
\* are discarded; none of them is in a segment emitted, or stored, after
\* recording has been started again.
C12_StopDiscardsOpenSegment ==
  /\ [](/\ \A i \in DOMAIN emitted : FramesOf(emitted[i]) \cap discarded = {}
        /\ {speechFrames[i] : i \in DOMAIN speechFrames} \cap discarded = {}
        /\ ~isRecording => speechFrames = <<>> /\ ~isClientSpeaking)
  /\ [][StopsWhileCapturing =>
          /\ emitted' = emitted
          /\ speechFrames' = <<>> /\ ~isClientSpeaking'
          /\ discarded' = discarded \cup {speechFrames[i] : i \in DOMAIN speechFrames}]_vars

\* an open segment was discarded by a stop, recording was started again, and
\* a later segment was emitted
C12_Witness ==
  /\ discarded # {}
  /\ \E i \in DOMAIN emitted : \A d \in discarded : emitted[i].open > d

(* ------------------------- avatar-sync claims -------------------------- *)
\* a playback-finished event was handled
EndedStep == endedCount' = endedCount + 1

\* C13: with the avatar-sync capability present, handling playback-finished
\* for the head item calls stopSpeaking and emits the 'ai-audio-ended' drain
\* event iff the queue is empty once the head is removed; with items left in
\* the queue neither happens.
C13_DrainIffQueueEmpty ==
  [][(EndedStep /\ live2dPresent) =>
       /\ audioQueue' = Shift(audioQueue)
       /\ IF Len(audioQueue') = 0
          THEN /\ stopSpeakingCalls' = stopSpeakingCalls + 1
               /\ drainEvents' = drainEvents + 1
          ELSE UNCHANGED <<stopSpeakingCalls, drainEvents>>]_vars

\* with the avatar present, one item finished with another waiting and then
\* the last one finished
C13_Witness ==
  /\ live2dPresent
  /\ endedCount = 2 /\ errorCount = 0
  /\ Len(audioQueue) = 0
  /\ stopSpeakingCalls = 1 /\ drainEvents = 1

\* a fragment became current
StartStep == Len(played') = Len(played) + 1

\* C14: when a fragment starts playing, live2dControls.speak is called with
\* its URL and the 'ai-audio-play' event is dispatched with its URL and text
\* iff the capability is visible at that moment; otherwise the item still
\* becomes current with isPlaying true and no speak call is made.
C14_SpeakIffVisible ==
  [][StartStep =>
       /\ isPlaying' /\ currentAudio' = audioQueue'[1]
       /\ played'[Len(played')] = currentAudio'.url
       /\ IF live2dPresent /\ live2dVisible
          THEN /\ speakCalls' = speakCalls + 1
               /\ playEvents' = [n |-> playEvents.n + 1,
                                 audioUrl |-> currentAudio'.url,
                                 text |-> currentAudio'.text]
          ELSE UNCHANGED <<speakCalls, playEvents>>]_vars

\* one fragment started while the avatar was hidden and a later one while it
\* was shown
C14_Witness ==
  /\ live2dPresent
  /\ Len(played) = 2 /\ isPlaying
  /\ speakCalls = 1
  /\ playEvents.n = 1 /\ playEvents.audioUrl = 2 /\ playEvents.text = "b"

\* fragment u is in the playback queue
InQueue(u) == \E i \in DOMAIN audioQueue : audioQueue[i].url = u
\* fragment u has been current
HasPlayed(u) == \E i \in DOMAIN played : played[i] = u

\* C15: when every playing item eventually fires ended or error and every
\* scheduled advance timer eventually fires, every fragment appended to the
\* queue eventually becomes current and is eventually removed; a non-empty
\* queue always has an item playing or an advance pending, also after a
\* playback error on the head.
C15_EveryFragmentPlays ==
  /\ [](Len(audioQueue) > 0 => isPlaying \/ pendingTimers > 0)
  /\ \A u \in 1..MaxFragments : InQueue(u) ~> (HasPlayed(u) /\ ~InQueue(u))

\* the head failed with another fragment queued, and that fragment started
C15_Witness ==
  /\ errorCount = 1 /\ endedCount = 0
  /\ Len(played) = 2 /\ Len(audioQueue) = 1
  /\ isPlaying /\ pendingTimers = 0

\* the malformed synthesis messages
MalformedKinds == {"noBase64", "badBase64", "noText", "badJson"}

\* C16: a malformed synthesis message (type 'audio' without audio_base64, a
\* payload atob cannot decode, no text, or data that is not JSON) ends in the
\* catch block: audioQueue, currentAudio and isPlaying are unchanged, and so
\* are the sockets, the connected flags and the status.
C16_MalformedDropped ==
  /\ [](\A k \in MalformedKinds : TtsOutcome(k) = "caught" /\ ~IsFragment(k))
  /\ [][(\/ parseFailures' # parseFailures
         \/ \E k \in MalformedKinds, t \in Texts : HandleTtsMessage(k, t)) =>
          /\ parseFailures' = parseFailures + 1
          /\ UNCHANGED <<audioQueue, currentAudio, isPlaying, nextUrl, played, chanVars>>]_vars

\* a malformed message was dropped while one item was playing and another
\* was waiting
C16_Witness ==
  /\ parseFailures = 1
  /\ isPlaying /\ Len(audioQueue) = 2
  /\ ttsSocket.rs = "OPEN" /\ isTtsConnected

(* -------------------------- conversation claims ------------------------ *)
\* turns of one sender in the conversation
TurnsBy(sender) ==
  Cardinality({i \in DOMAIN conversationHistory : conversationHistory[i].sender = sender})
\* recognition-channel messages of one type handled so far
Received(type) == Cardinality({i \in DOMAIN sttMessages : sttMessages[i] = type})
\* a recognition-channel message was handled
SttStep == Len(sttMessages') = Len(sttMessages) + 1
\* its message.type
SttType == sttMessages'[Len(sttMessages')]

\* C17: every recognition-channel message of type recognition_result appends
\* exactly one user turn, every one of type llm_response exactly one assistant
\* turn, and any other appends none; messages of type error or of an unknown
\* type leave the connected flags, the recording state and the playback queue
\* unchanged.
C17_OneTurnPerMessage ==
  /\ [](/\ TurnsBy("user") = Received("recognition_result")
        /\ TurnsBy("assistant") = 1 + Received("llm_response"))
  /\ [][SttStep =>
          /\ Len(conversationHistory') =
               Len(conversationHistory)
                 + (IF SttType \in {"recognition_result", "llm_response"} THEN 1 ELSE 0)
          /\ SttType \notin {"recognition_result", "llm_response"} =>
               UNCHANGED <<conversationHistory, chanVars, recVars, playVars>>]_vars

\* sequence a is an initial part of sequence b
IsPrefix(a, b) == Len(a) <= Len(b) /\ SubSeq(b, 1, Len(a)) = a

\* C18: the conversation log only grows: every step leaves the earlier turns
\* in place and in order (also disconnect and reconnect), and a turn is added
\* only at the end, by the step that handles its message.
C18_LogOnlyGrows ==
  [][/\ IsPrefix(conversationHistory, conversationHistory')
     /\ conversationHistory' # conversationHistory =>
          /\ SttStep
          /\ Len(conversationHistory') = Len(conversationHistory) + 1
          /\ conversationHistory'[Len(conversationHistory')].sender
               = (IF SttType = "recognition_result" THEN "user" ELSE "assistant")]_vars

\* a user turn and then an assistant turn follow the greeting, on a
\* recognition socket opened while an earlier one was still closing
C18_Witness ==
  /\ Len(conversationHistory) = 3
  /\ conversationHistory[1].text = "greeting"
  /\ conversationHistory[2].sender = "user"
  /\ conversationHistory[3].sender = "assistant"
  /\ sttOld.closing = 1 /\ sttSocket.rs = "OPEN"

(* ------------------------------ send claims --------------------------- *)
\* C19: a config or audio message is transmitted on the recognition socket
\* only when that socket is OPEN; called when it is not, updateSttServerConfig
\* and sendAudioToServer transmit nothing, do not fail (startVoiceChat goes on
\* to request the microphone, processAudio goes on to reset the segmenter)
\* and leave the sockets, the connected flags and the recording state as
\* they were.
C19_SendsOnlyWhenOpen ==
  [][/\ ConfigSent => sttSocket.rs = "OPEN" /\ sttSocket'.rs = "OPEN"
     /\ (StartPasses /\ sttSocket.rs # "OPEN") =>
          /\ UNCHANGED <<chanVars, isRecording, mediaStream, audioContext, audioProcessor>>
     /\ Emits =>
          /\ emitted'[Len(emitted')].sent <=> sttSocket.rs = "OPEN"
          /\ UNCHANGED <<chanVars, recVars>>
          /\ ~isClientSpeaking' /\ speechFrames' = <<>>]_vars

\* recording was started and a segment finished while the recognition socket
\* was closing: neither the config nor the audio message went out
C19_Witness ==
  /\ sttSocket.rs = "CLOSING" /\ sttSocket.cfg = 1
  /\ isRecording
  /\ \E i \in DOMAIN emitted : ~emitted[i].sent

\* a socket whose close or error event has been delivered, or that is
\* closing
Shut(s) == s.rs \in {"CLOSING", "CLOSED"}

\* C20: no close handler, error handler or timer opens a connection: a new
\* socket appears in sttSocket or ttsSocket only in a connectWebSocket step, a
\* socket that has closed or errored stays shut until connectWebSocket
\* replaces it, and a connected flag turns true only when a socket created by
\* connectWebSocket opens.
C20_NoAutoReconnect ==
  [][/\ (sttSocket' = NewSocket /\ sttSocket # NewSocket) => ConnectWebSocket
     /\ (ttsSocket' = NewSocket /\ ttsSocket # NewSocket) => ConnectWebSocket
     /\ Shut(sttSocket) => Shut(sttSocket') \/ ConnectWebSocket
     /\ Shut(ttsSocket) => Shut(ttsSocket') \/ ConnectWebSocket
     /\ (~isSttConnected /\ isSttConnected') =>
          sttSocket = NewSocket /\ sttSocket'.rs = "OPEN"
     /\ (~isTtsConnected /\ isTtsConnected') =>
          ttsSocket = NewSocket /\ ttsSocket'.rs = "OPEN"]_vars

\* the recognition channel opened and then closed while the synthesis
\* channel stayed open: the recognition socket is still the closed one
C20_Witness ==
  /\ sttSocket.rs = "CLOSED" /\ sttSocket.closed /\ sttSocket.cfg >= 1
  /\ ~isSttConnected
  /\ ttsSocket.rs = "OPEN" /\ isTtsConnected

(* --------------------------- disconnect claims ------------------------ *)
\* close() has been called on the socket, or there is none
CloseRequested(s) == s.rs \notin {"CONNECTING", "OPEN"}

\* both channels flagged disconnected, no socket connecting or open, and
\* recording off
AlreadyDisconnected ==
  /\ ~isSttConnected /\ ~isTtsConnected
  /\ CloseRequested(sttSocket) /\ CloseRequested(ttsSocket)
  /\ ~isRecording

\* C21: from any state disconnectWebSocket leaves both channels flagged
\* disconnected, both sockets with close requested, the status
\* "disconnected" and recording stopped with the capture handles of the
\* recording released; from a state that is already disconnected it changes
\* nothing.
C21_DisconnectIdempotent ==
  [][DisconnectWebSocket =>
       /\ ~isSttConnected' /\ ~isTtsConnected'
       /\ CloseRequested(sttSocket') /\ CloseRequested(ttsSocket')
       /\ connectionStatusClass' = "disconnected"
       /\ ~isRecording'
       /\ isRecording =>
            /\ mediaStream' = 0 /\ audioContext' = 0 /\ audioProcessor' = 0
            /\ mediaStream \notin liveStreams'
            /\ audioContext \notin liveContexts'
            /\ audioProcessor \notin liveProcessors'
       /\ AlreadyDisconnected => UNCHANGED vars]_vars

\* disconnectWebSocket was called on open channels after startVoiceChat had
\* pushed its config: both sockets are closing, nothing is held, and the
\* close events are still to come
C21_Witness ==
  /\ AlreadyDisconnected
  /\ sttSocket.rs = "CLOSING" /\ sttSocket.cfg >= 2
  /\ ttsSocket.rs = "CLOSING"
  /\ connectionStatusClass = "disconnected"
  /\ liveStreams = {} /\ mediaStream = 0

(* ----------------------------- capture claims ------------------------- *)
\* no stream, context or processor is alive and none is held
CaptureReleased ==
  /\ liveStreams = {} /\ liveContexts = {} /\ liveProcessors = {}
  /\ mediaStream = 0 /\ audioContext = 0 /\ audioProcessor = 0

\* disconnectWebSocket or the unmount hook has run and nothing has connected
\* since (no channel event takes place in the capture runs)
TornDown == ~mounted \/ (~isSttConnected /\ ~isTtsConnected)

\* C22: once disconnectWebSocket or the unmount hook has run and every
\* startVoiceChat call has come back from its wait for the microphone, the
\* stream, the context and the processor are released and recording is not
\* active.
C22_ReleasedAfterTeardown ==
  (TornDown /\ pendingMedia = 0) => ~isRecording /\ CaptureReleased

\* a startVoiceChat call comes back from its await and leaves through its
\* catch block: no processor was installed
FailedStart == pendingMedia' = pendingMedia - 1 /\ audioProcessor' = audioProcessor

\* C23: a startVoiceChat call that fails (getUserMedia rejected, or the
\* context or the processor not built after the microphone was granted) does
\* not start recording and leaves no stream, context or processor held or
\* alive that was not there before the call.
C23_FailedStartHoldsNothing ==
  [][FailedStart =>
       /\ isRecording' = isRecording
       /\ UNCHANGED <<mediaStream, audioContext, liveStreams, liveContexts,
                      liveProcessors>>]_vars

(* ----------------------------- settings claims ------------------------ *)
\* C24: while at least one channel is connected the STT endpoint, the TTS
\* endpoint and the user token cannot be changed: every edit happens with
\* both channels flagged disconnected.
C24_SettingsFrozenWhileOpen ==
  [][settings' # settings => ~isSttConnected /\ ~isTtsConnected]_vars

(* ------------------------------ framer claims ------------------------- *)
\* C25: every sample becomes a signed 16-bit value, saturated and never
\* wrapped: a sample at or above 32767/32768 gives 32767, one at or below -1
\* gives -32768, and a sample in between gives its scaled value n * 32768,
\* exactly when that is an integer and with the fraction dropped otherwise.
C25_FramerSaturates ==
  /\ audioData \in -32768..32767
  /\ inputData >= FullScale - 2 => audioData = 32767
  /\ inputData <= -FullScale => audioData = -32768
  /\ (inputData > -FullScale /\ inputData < FullScale - 2) =>
       /\ inputData % 2 = 0 => 2 * audioData = inputData
       /\ inputData % 2 = 1 =>
            /\ 2 * audioData - inputData \in {-1, 1}
            /\ Max(2 * audioData, -2 * audioData) < Max(inputData, -inputData)

\* C25 as stated: saturation at both boundaries, and every sample in between
\* converted to exactly n * 32768.
C25_FramerExact ==
  /\ inputData >= FullScale - 2 => audioData = 32767
  /\ inputData <= -FullScale => audioData = -32768
  /\ (inputData > -FullScale /\ inputData < FullScale - 2) =>
       2 * audioData = inputData

\* the sample 1.5 was converted, to 32767
C25_Witness == inputData = 3 * (FullScale \div 2) /\ audioData = 32767

(* ------------------------- superseded socket claims ------------------- *)
\* an event of a superseded socket is delivered: the held sockets stay
SttOldEvent == sttOld' # sttOld /\ sttSocket' = sttSocket /\ ttsSocket' = ttsSocket
TtsOldEvent == ttsOld' # ttsOld /\ sttSocket' = sttSocket /\ ttsSocket' = ttsSocket

\* a late event of a superseded socket leaves the connected flag of its
\* channel and the recording state as they were
C26_LateEventsIgnored ==
  /\ SttOldEvent => isSttConnected' = isSttConnected /\ isRecording' = isRecording
  /\ TtsOldEvent => isTtsConnected' = isTtsConnected /\ isRecording' = isRecording

\* C26: the connected flag of a channel is true only while the socket the
\* channel holds is OPEN, and an event delivered by a superseded socket
\* neither marks the new connection disconnected nor stops recording on it.
C26_FlagFollowsHeldSocket ==
  /\ [](/\ isSttConnected => sttSocket.rs = "OPEN"
        /\ isTtsConnected => ttsSocket.rs = "OPEN")
  /\ [][C26_LateEventsIgnored]_vars

(* --------------------------- advance timer claims --------------------- *)
\* the callback of an advance timer runs
TimerStep == pendingTimers' = pendingTimers - 1

\* C27: while an advance timer set by onAudioEnded is still to fire, the new
\* head starts playing only in the step of a timer callback, and a timer
\* callback starts at most one item.
C27_HeadWaitsForTimer ==
  [][/\ (StartStep /\ pendingTimers > 0) => TimerStep
     /\ TimerStep => Len(played') <= Len(played) + 1]_vars

(* ---------------------------- readiness claims ------------------------ *)
\* C28: whenever isRecording is true both channels are connected: recording
\* starts only then, and a close or error of either channel ends it.
C28_RecordingOnlyWhenReady ==
  /\ [](isRecording => isConnected)
  /\ [][(isRecording /\ ChannelEvent /\ ~isConnected') => ~isRecording']_vars

(* ------------------------- overlapping start claims ------------------- *)
\* C29: at most one capture is alive at any time: never two streams or two
\* contexts, and a stream held in mediaStream is stopped before another
\* takes its place.
C29_OneCaptureAlive ==
  /\ [](Cardinality(liveStreams) <= 1 /\ Cardinality(liveContexts) <= 1)
  /\ [][(mediaStream # 0 /\ mediaStream' # mediaStream) =>
          mediaStream \notin liveStreams']_vars

(* ------------------------- open segment claims ------------------------ *)
\* C30: the segmenter holds at most one open segment: blocks are stored only
\* while isClientSpeaking holds, the first stored block is the loud block that
\* opened the segment, and while isClientSpeaking holds the silence run is
\* below MAX_SILENCE_FRAMES after every block.
C30_OneOpenSegment ==
  /\ Len(speechFrames) > 0 =>
       /\ isClientSpeaking
       /\ speechFrames[1] = segStart
       /\ frameLog[speechFrames[1]]
  /\ isClientSpeaking => silenceFrames < MAX_SILENCE_FRAMES

\* recording was stopped with blocks stored and started again, and a new
\* segment is open with quiet blocks behind its loud ones
C30_Witness ==
  /\ discarded # {}
  /\ isRecording /\ isClientSpeaking /\ Len(speechFrames) > 1
  /\ silenceFrames >= 1

(* ------------------------------ avatar claims ------------------------- *)
\* nothing is playing and nothing waits
PlaybackIdle == Len(audioQueue) = 0 /\ ~isPlaying

\* C31: the avatar is never left speaking when playback is idle: with the
\* queue empty and nothing playing, the last call made to the avatar is not a
\* speak call that no stopSpeaking call has followed, whether the last item
\* ended or failed.
C31_AvatarStoppedWhenIdle == PlaybackIdle => ~avatarSpeaking

(* ------------------------ queue survival claims ----------------------- *)
\* disconnectWebSocket runs, or a close or error event of a held socket is
\* delivered
GoneStep ==
  DisconnectWebSocket \/ SttOnClose \/ SttOnError \/ TtsOnClose \/ TtsOnError

\* both channels are flagged disconnected and neither socket is open
ConnectionsGone ==
  /\ ~isSttConnected /\ ~isTtsConnected
  /\ sttSocket.rs # "OPEN" /\ ttsSocket.rs # "OPEN"

\* C32: disconnectWebSocket and every close or error event of a channel leave
\* audioQueue, currentAudio and isPlaying as they were, and the fragments
\* queued when the connections are gone still play, each in arrival order,
\* until the queue is empty.
C32_QueueSurvivesDisconnect ==
  /\ [][GoneStep => UNCHANGED <<audioQueue, currentAudio, isPlaying>>]_vars
  /\ [][(ConnectionsGone /\ StartStep) =>
          played'[Len(played')] = Len(played')]_vars
  /\ (ConnectionsGone ~> PlaybackIdle)

\* both sockets have delivered their close event while one fragment is
\* playing and two more wait behind it
C32_Witness ==
  /\ ConnectionsGone /\ sttSocket.closed /\ ttsSocket.closed
  /\ isPlaying /\ Len(audioQueue) = 3
  /\ Len(played) = Arrived - 2

=============================================================================
